---------------------------- MODULE Spec2Model ----------------------------
(***************************************************************************)
(* Model of script.js, the exam submission status widget.                  *)
(*                                                                         *)
(* Representation.                                                         *)
(*  - Instants are integers counting slots; a minute has Sub slots, and    *)
(*    slot 0 is local midnight of day 0.  A Date is [k |-> "date", t],     *)
(*    the Invalid Date is [k |-> "invalid"], null is [k |-> "null"].       *)
(*  - A JavaScript number is [k |-> "num", v] with v the value in slots    *)
(*    (fixed point, scale Sub: the integer n is v = n * Sub),              *)
(*    [k |-> "nan"] for NaN, or [k |-> "big", v |-> sign] for +-1e21, the  *)
(*    smallest integer Number.prototype.toString prints with an exponent.  *)
(*  - A JavaScript string is a sequence of one-character strings.          *)
(***************************************************************************)
EXTENDS Integers, Sequences, FiniteSets, TLC

\* Slots per minute: the resolution of the modelled clock.
Sub == 2

\* ------------------------------------------------------------------------
\* JavaScript numbers

Num(n) == [k |-> "num", v |-> n * Sub]

NaN == [k |-> "nan", v |-> 0]

Big == [k |-> "big", v |-> 1]

IsInt(x) == x.k = "num" /\ x.v % Sub = 0

Abs(i) == IF i < 0 THEN -i ELSE i

Sign(i) == IF i < 0 THEN -1 ELSE 1

\* Position of a number on the extended line: -1e21 < every modelled finite < 1e21.
Rank(x) == IF x.k = "big" THEN x.v ELSE 0

\* a < b: false as soon as one side is NaN.
JsLt(a, b) ==
    /\ a.k # "nan"
    /\ b.k # "nan"
    /\ \/ Rank(a) < Rank(b)
       \/ a.k = "num" /\ b.k = "num" /\ a.v < b.v

\* a > b
JsGt(a, b) == JsLt(b, a)

\* a >= b: false as soon as one side is NaN.
JsGe(a, b) == a.k # "nan" /\ b.k # "nan" /\ ~JsLt(a, b)

\* a - b in double arithmetic: 1e21 absorbs every modelled finite number.
JsSub(a, b) ==
    IF a.k = "nan" \/ b.k = "nan" THEN NaN
    ELSE IF a.k = "num" /\ b.k = "num" THEN [k |-> "num", v |-> a.v - b.v]
    ELSE IF a.k = "big" /\ b.k = "num" THEN a
    ELSE IF a.k = "num" /\ b.k = "big" THEN [k |-> "big", v |-> -b.v]
    ELSE IF a.v = b.v THEN Num(0)
    ELSE a

\* a % b: the remainder takes the sign of the dividend; x % 0 is NaN.
\* The dividend of the program is never 1e21.
JsMod(a, b) ==
    IF a.k # "num" \/ b.k = "nan" THEN NaN
    ELSE IF b.k = "big" THEN a
    ELSE IF b.v = 0 THEN NaN
    ELSE [k |-> "num", v |-> Sign(a.v) * (Abs(a.v) % Abs(b.v))]

\* Math.floor in the place of Math.ceil.
MathCeil_floor(x) ==
    IF x.k = "num" THEN [k |-> "num", v |-> (x.v \div Sub) * Sub]
    ELSE x

\* Math.ceil
MathCeil(x) ==
    IF x.k = "num" THEN [k |-> "num", v |-> -(((-x.v) \div Sub) * Sub)]
    ELSE x

\* x === n for an integer literal n
JsEqInt(x, n) == x.k = "num" /\ x.v = n * Sub

\* ------------------------------------------------------------------------
\* JavaScript strings

Digits == <<"0", "1", "2", "3", "4", "5", "6", "7", "8", "9">>

IsDigit(c) == \E i \in 1..10 : Digits[i] = c

DigitVal(c) == (CHOOSE i \in 1..10 : Digits[i] = c) - 1

\* The decimal digits of 1e21.
BigDigits == <<"1">> \o [i \in 1..21 |-> "0"]

\* Length of the longest prefix of s made of digits.
RECURSIVE DigitRun(_)
DigitRun(s) ==
    IF s = <<>> \/ ~IsDigit(Head(s)) THEN 0 ELSE 1 + DigitRun(Tail(s))

\* Value of a sequence of digits.
RECURSIVE DigitsValue(_)
DigitsValue(s) ==
    IF s = <<>> THEN 0
    ELSE 10 * DigitsValue(SubSeq(s, 1, Len(s) - 1)) + DigitVal(s[Len(s)])

\* s without its leading white space.
RECURSIVE TrimStart(_)
TrimStart(s) ==
    IF s # <<>> /\ Head(s) = " " THEN TrimStart(Tail(s)) ELSE s

\* parseInt(s, 10): leading white space, an optional sign, then the longest
\* run of digits; whatever follows is ignored; NaN when there is no digit.
parseInt(s) ==
    LET t == TrimStart(s)
        neg == t # <<>> /\ Head(t) = "-"
        u == IF t # <<>> /\ Head(t) \in {"-", "+"} THEN Tail(t) ELSE t
        d == SubSeq(u, 1, DigitRun(u))
    IN  IF d = <<>> THEN NaN
        ELSE IF d = BigDigits THEN [k |-> "big", v |-> IF neg THEN -1 ELSE 1]
        ELSE Num(IF neg THEN -DigitsValue(d) ELSE DigitsValue(d))

\* Decimal digits of a natural number.
RECURSIVE NatToString(_)
NatToString(n) ==
    IF n < 10 THEN <<Digits[n + 1]>>
    ELSE NatToString(n \div 10) \o <<Digits[(n % 10) + 1]>>

\* Number.prototype.toString / String(x) of an integer-valued number.
NumToString(x) ==
    IF x.k = "nan" THEN <<"N", "a", "N">>
    ELSE IF x.k = "big"
         THEN (IF x.v < 0 THEN <<"-">> ELSE <<>>) \o <<"1", "e", "+", "2", "1">>
    ELSE (IF x.v < 0 THEN <<"-">> ELSE <<>>) \o NatToString(Abs(x.v) \div Sub)

\* String.prototype.padStart(2, '0')
padStart2(s) == IF Len(s) < 2 THEN [i \in 1..(2 - Len(s)) |-> "0"] \o s ELSE s

\* Index of the first ':' of s at or after position i, or Len(s) + 1.
RECURSIVE ColonFrom(_, _)
ColonFrom(s, i) ==
    IF i > Len(s) \/ s[i] = ":" THEN i ELSE ColonFrom(s, i + 1)

\* s.split(':'), of which the program reads the first two parts; a part that
\* does not exist is undefined, modelled by the one-element sequence below.
Undefined == <<"undefined">>

split(s) ==
    LET c1 == ColonFrom(s, 1)
        c2 == ColonFrom(s, c1 + 1)
    IN  << SubSeq(s, 1, c1 - 1),
           IF c1 > Len(s) THEN Undefined ELSE SubSeq(s, c1 + 1, c2 - 1) >>

\* parseInt of a part of split: ToString(undefined) has no digit.
parsePart(p) == IF p = Undefined THEN NaN ELSE parseInt(p)

\* ------------------------------------------------------------------------
\* Dates

DaySlots == 24 * 60 * Sub

Null == [k |-> "null", t |-> 0]

InvalidDate == [k |-> "invalid", t |-> 0]

\* new Date() at instant now
NewDate(now) == [k |-> "date", t |-> now]

\* d.setHours(h, m, 0, 0): local time h:m on the date of d; a NaN or
\* out-of-range argument makes the date invalid.
setHours(d, h, m) ==
    IF d.k = "date" /\ IsInt(h) /\ IsInt(m)
    THEN [k |-> "date", t |-> (d.t - (d.t % DaySlots)) + h.v * 60 + m.v]
    ELSE InvalidDate

\* d.getHours()
getHours(d) ==
    IF d.k = "date" THEN Num((d.t % DaySlots) \div (60 * Sub)) ELSE NaN

\* d.getMinutes()
getMinutes(d) ==
    IF d.k = "date" THEN Num(((d.t % DaySlots) \div Sub) % 60) ELSE NaN

\* `${hours}:${minutes}` with both parts padded to two characters
FormatHHMM(d) ==
    padStart2(NumToString(getHours(d))) \o <<":">> \o padStart2(NumToString(getMinutes(d)))

\* ------------------------------------------------------------------------
\* Application state

initialWaitTime == 30

appState0 ==
    [ examStartTime |-> Null,
      submissionInterval |-> Num(10),
      initialWaitTime |-> Num(initialWaitTime),
      submissionWindowDuration |-> Num(1),
      statusBarEnabled |-> FALSE ]

\* ------------------------------------------------------------------------
\* URL parameters.  The query string is a function from the names present
\* to their decoded values (URLSearchParams owns the encoding).

\* startParam.match(/^(\d{1,2}):(\d{2})$/)
timeMatch(s) ==
    /\ Len(s) \in {4, 5}
    /\ s[Len(s) - 2] = ":"
    /\ \A i \in 1..Len(s) : i # Len(s) - 2 => IsDigit(s[i])

\* hours >= 0 && hours < 24 && minutes >= 0 && minutes < 60
timeInRange(hours, minutes) ==
    /\ JsGe(hours, Num(0))
    /\ JsLt(hours, Num(24))
    /\ JsGe(minutes, Num(0))
    /\ JsLt(minutes, Num(60))

startAccepted(search) ==
    /\ "start" \in DOMAIN search
    /\ timeMatch(search.start)
    /\ timeInRange(parseInt(SubSeq(search.start, 1, Len(search.start) - 3)),
                   parseInt(SubSeq(search.start, Len(search.start) - 1, Len(search.start))))

\* !isNaN(n) && n > 0
positiveNumber(n) == n.k # "nan" /\ JsGt(n, Num(0))

intervalAccepted(search) ==
    "interval" \in DOMAIN search /\ positiveNumber(parseInt(search.interval))

durationAccepted(search) ==
    "duration" \in DOMAIN search /\ positiveNumber(parseInt(search.duration))

\* showParam === '1' || showParam === 'true'
showValue(showParam) == showParam = <<"1">> \/ showParam = <<"t", "r", "u", "e">>

\* The object parseURLParameters returns: a function from the names it set.
parseURLParameters(search) ==
    LET names == { n \in DOMAIN search :
                     \/ n = "start" /\ startAccepted(search)
                     \/ n = "interval" /\ intervalAccepted(search)
                     \/ n = "duration" /\ durationAccepted(search)
                     \/ n = "show" }
    IN  [ n \in names |->
            CASE n = "start" -> search.start
              [] n = "interval" -> parseInt(search.interval)
              [] n = "duration" -> parseInt(search.duration)
              [] OTHER -> showValue(search.show) ]

\* The query string updateURL writes with history.replaceState.
updateURL(st) ==
    LET names == (IF st.examStartTime.k # "null" THEN {"start"} ELSE {})
                   \cup {"interval", "duration", "show"}
    IN  [ n \in names |->
            CASE n = "start" -> FormatHHMM(st.examStartTime)
              [] n = "interval" -> NumToString(st.submissionInterval)
              [] n = "duration" -> NumToString(st.submissionWindowDuration)
              [] OTHER -> IF st.statusBarEnabled THEN <<"1">> ELSE <<"0">> ]

\* The start time initializeDefaultStartTime computes.
defaultStartTime(search, now) ==
    LET urlParams == parseURLParameters(search)
    IN  IF "start" \in DOMAIN urlParams
        THEN setHours(NewDate(now),
                      parseInt(split(urlParams.start)[1]),
                      parseInt(split(urlParams.start)[2]))
        ELSE NewDate(now)

\* appState after initializeFromURL (which ends with initializeDefaultStartTime).
initializeFromURL(st, search, now) ==
    LET urlParams == parseURLParameters(search)
    IN  [ st EXCEPT
            !.submissionInterval =
                IF "interval" \in DOMAIN urlParams THEN urlParams.interval ELSE @,
            !.submissionWindowDuration =
                IF "duration" \in DOMAIN urlParams THEN urlParams.duration ELSE @,
            !.statusBarEnabled =
                IF "show" \in DOMAIN urlParams THEN urlParams.show ELSE @,
            !.examStartTime = defaultStartTime(search, now) ]

\* ------------------------------------------------------------------------
\* Status classification

Message(text) == [text |-> text, count |-> <<>>, unit |-> ""]

\* `Volgende afgeefmoment over ${n} ${n === 1 ? 'minuut' : 'minuten'}`
WaitMessage(n) ==
    [ text |-> "Volgende afgeefmoment over",
      count |-> NumToString(n),
      unit |-> IF JsEqInt(n, 1) THEN "minuut" ELSE "minuten" ]

notStarted == [state |-> "not-started", message |-> Message("Examen nog niet gestart")]

\* (now - appState.examStartTime) / (1000 * 60)
minutesSinceStart(st, now) ==
    IF st.examStartTime.k = "date"
    THEN [k |-> "num", v |-> now - st.examStartTime.t]
    ELSE NaN

\* minutesSinceStart <= 0 in the place of minutesSinceStart < 0.
beforeStart_orAt(m) == JsLt(m, Num(0)) \/ m = Num(0)

\* minutesSinceStart < 0
beforeStart(m) == JsLt(m, Num(0))

\* minutesSinceStart < appState.initialWaitTime
inInitialWait(st, m) == JsLt(m, st.initialWaitTime)

\* The position without the remainder: only the first cycle is seen.
cyclePosition_nomod(st, m) == JsSub(m, st.initialWaitTime)

\* (minutesSinceStart - initialWaitTime) % submissionInterval
cyclePosition(st, m) == JsMod(JsSub(m, st.initialWaitTime), st.submissionInterval)

\* cyclePosition <= submissionWindowDuration: a window closed at both ends.
inWindow_closed(st, cp) ==
    JsLt(cp, st.submissionWindowDuration) \/ cp = st.submissionWindowDuration

\* cyclePosition < appState.submissionWindowDuration
inWindow(st, cp) == JsLt(cp, st.submissionWindowDuration)

\* Math.ceil(appState.initialWaitTime - minutesSinceStart)
minutesRemaining(st, m) == MathCeil(JsSub(st.initialWaitTime, m))

\* The minutes elapsed in the cycle in the place of the minutes left in it.
minutesUntilNext_elapsed(st, cp) == MathCeil(cp)

\* Math.ceil(appState.submissionInterval - cyclePosition)
minutesUntilNext(st, cp) == MathCeil(JsSub(st.submissionInterval, cp))

calculateExamStatus(st, now) ==
    LET m == minutesSinceStart(st, now)
        cp == cyclePosition(st, m)
    IN  IF st.examStartTime.k = "null" THEN notStarted
        ELSE IF beforeStart(m) THEN notStarted
        ELSE IF inInitialWait(st, m)
             THEN [state |-> "waiting", message |-> WaitMessage(minutesRemaining(st, m))]
        ELSE IF inWindow(st, cp)
             THEN [state |-> "can-submit", message |-> Message("Je mag nu afgeven!")]
        ELSE [state |-> "waiting", message |-> WaitMessage(minutesUntilNext(st, cp))]

\* The status bar element after updateStatusBar.
updateStatusBar(bar, st, now) ==
    IF ~st.statusBarEnabled
    THEN [bar EXCEPT !.hidden = TRUE, !.containerHidden = TRUE]
    ELSE [ hidden |-> FALSE,
           containerHidden |-> FALSE,
           state |-> calculateExamStatus(st, now).state,
           textContent |-> calculateExamStatus(st, now).message ]

\* ------------------------------------------------------------------------
\* The page

VARIABLES
    loaded,       \* the script has run its initialisation
    appState,     \* the appState object
    search,       \* window.location.search, as a function of the names present
    form,         \* values of the settings form's inputs
    modalActive,  \* settingsModal carries the class 'active'
    statusBar,    \* the statusBar element (and the image container's class)
    datetime,     \* the instant the datetime element shows
    now,          \* the wall clock
    tickDue       \* the interval timer has not fired since the clock moved

vars == <<loaded, appState, search, form, modalActive, statusBar, datetime, now, tickDue>>

\* Bounds of the explored clock: the page is opened in minute FirstMinute of
\* day 0 and followed for ClockSpan minutes.
FirstMinute == 29

ClockSpan == 4

\* Strings a user may put in the address or type in the form.
Str0000 == <<"0", "0", ":", "0", "0">>

Str930 == <<"9", ":", "3", "0">>

Str2460 == <<"2", "4", ":", "6", "0">>

Str0031 == <<"0", "0", ":", "3", "1">>

StartParams == { Str0000, Str930, Str2460, <<"a">> }

NumberParams == { <<"2">>, <<"0">>, <<"-", "3">>, <<"x">>, <<"3", "x">> }

ShowParams == { <<"1">>, <<"t", "r", "u", "e">>, <<"0">>, <<"y", "e", "s">> }

\* Query strings the page is opened with: nothing, one parameter, or all four.
SearchInputs ==
    { <<>> }
      \cup { [start |-> s] : s \in StartParams }
      \cup { [interval |-> n] : n \in NumberParams }
      \cup { [duration |-> n] : n \in NumberParams }
      \cup { [show |-> b] : b \in ShowParams }
      \cup { [start |-> Str0000, interval |-> n, duration |-> <<"1">>, show |-> <<"1">>] :
               n \in NumberParams }
      \cup { [start |-> s, interval |-> <<"2">>, duration |-> <<"x">>, show |-> <<"1">>] :
               s \in StartParams }

StartInputs == { Str0000, Str0031, <<>> }

IntervalInputs == { <<"2">>, <<>>, <<"0">>, BigDigits }

DurationInputs == { <<"1">>, <<"-", "1">>, <<"3">> }

\* Dialog contents a user may save: a well-formed one with one input changed.
usualForm ==
    [ startTime |-> Str0000,
      submissionInterval |-> <<"2">>,
      submissionDuration |-> <<"1">>,
      statusBarToggle |-> TRUE ]

FormInputs ==
    { [usualForm EXCEPT !.startTime = s] : s \in StartInputs }
      \cup { [usualForm EXCEPT !.submissionInterval = s] : s \in IntervalInputs }
      \cup { [usualForm EXCEPT !.submissionDuration = s] : s \in DurationInputs }
      \cup { [usualForm EXCEPT !.statusBarToggle = FALSE] }

form0 ==
    [ startTime |-> <<>>,
      submissionInterval |-> <<>>,
      submissionDuration |-> <<>>,
      statusBarToggle |-> FALSE ]

statusBar0 ==
    [ hidden |-> FALSE,
      containerHidden |-> FALSE,
      state |-> "",
      textContent |-> Message("") ]

Init ==
    /\ loaded = FALSE
    /\ appState = appState0
    /\ search \in SearchInputs
    /\ form = form0
    /\ modalActive = FALSE
    /\ statusBar = statusBar0
    /\ datetime = 0
    /\ now \in (FirstMinute * Sub)..(FirstMinute * Sub + 1)
    /\ tickDue = FALSE

\* The script's top level: initializeFromURL(); updateDateTime(); updateStatusBar();
\* setInterval(...).
Load ==
    /\ ~loaded
    /\ loaded' = TRUE
    /\ appState' = initializeFromURL(appState, search, now)
    /\ form' = [form EXCEPT !.startTime = FormatHHMM(appState'.examStartTime)]
    /\ datetime' = now
    /\ statusBar' = updateStatusBar(statusBar, appState', now)
    /\ tickDue' = FALSE
    /\ UNCHANGED <<search, modalActive, now>>

\* The setInterval callback: updateDateTime(); updateStatusBar().
Tick ==
    /\ loaded
    /\ datetime' = now
    /\ statusBar' = updateStatusBar(statusBar, appState, now)
    /\ tickDue' = FALSE
    /\ UNCHANGED <<loaded, appState, search, form, modalActive, now>>

\* The wall clock moves on by one slot; the timer fires in every slot.
Clock(last) ==
    /\ loaded
    /\ ~tickDue
    /\ now < last
    /\ now' = now + 1
    /\ tickDue' = TRUE
    /\ UNCHANGED <<loaded, appState, search, form, modalActive, statusBar, datetime>>

Advance == Clock((FirstMinute + ClockSpan) * Sub)

\* The form after loadSettingsToForm.
loadSettingsToForm(f, st) ==
    [ startTime |->
          IF st.examStartTime.k # "null" THEN FormatHHMM(st.examStartTime) ELSE f.startTime,
      submissionInterval |-> NumToString(st.submissionInterval),
      submissionDuration |-> NumToString(st.submissionWindowDuration),
      statusBarToggle |-> st.statusBarEnabled ]

\* Click on the settings button: loadSettingsToForm(); openSettingsModal().
SettingsButtonClick ==
    /\ loaded
    /\ form' = loadSettingsToForm(form, appState)
    /\ modalActive' = TRUE
    /\ UNCHANGED <<loaded, appState, search, statusBar, datetime, now, tickDue>>

\* Click on the cancel button or outside the dialog: closeSettingsModal().
CancelClick ==
    /\ modalActive
    /\ modalActive' = FALSE
    /\ UNCHANGED <<loaded, appState, search, form, statusBar, datetime, now, tickDue>>

\* appState after the assignments of saveSettings.
saveSettings(st, f, t) ==
    [ st EXCEPT
        !.examStartTime = setHours(NewDate(t),
                                   parsePart(split(f.startTime)[1]),
                                   parsePart(split(f.startTime)[2])),
        !.submissionInterval = parseInt(f.submissionInterval),
        !.submissionWindowDuration = parseInt(f.submissionDuration),
        !.statusBarEnabled = f.statusBarToggle ]

\* saveSettings without its closing updateStatusBar(): the bar waits for the timer.
saveRender_stale(bar, st, t) == bar

\* The status bar saveSettings leaves: its closing updateStatusBar().
saveRender(bar, st, t) == updateStatusBar(bar, st, t)

\* The user leaves the dialog as loaded or fills it in, then clicks the save
\* button: saveSettings().
SaveClick ==
    /\ modalActive
    /\ form' \in FormInputs \cup {form}
    /\ appState' = saveSettings(appState, form', now)
    /\ search' = updateURL(appState')
    /\ modalActive' = FALSE
    /\ statusBar' = saveRender(statusBar, appState', now)
    /\ UNCHANGED <<loaded, datetime, now, tickDue>>

\* The user reloads the page, or opens the address it shows in a new one.
Reload ==
    /\ loaded
    /\ loaded' = FALSE
    /\ appState' = appState0
    /\ form' = form0
    /\ modalActive' = FALSE
    /\ statusBar' = statusBar0
    /\ datetime' = 0
    /\ tickDue' = FALSE
    /\ UNCHANGED <<search, now>>

Next ==
    \/ Load
    \/ Tick
    \/ Advance
    \/ SettingsButtonClick
    \/ CancelClick
    \/ SaveClick
    \/ Reload

Spec == Init /\ [][Next]_vars

\* ------------------------------------------------------------------------
\* The classification on its own: the page shows the status of one held
\* configuration while the clock runs from midnight; no settings are applied.

MaxInterval == 4

MaxWindow == 5

ClassifyStarts == { Null, InvalidDate, NewDate(0), NewDate(Sub + 1) }

ClassifyIntervals == { NaN, Big } \cup { Num(n) : n \in (-1)..MaxInterval }

ClassifyWindows == { NaN, Big } \cup { Num(n) : n \in (-1)..MaxWindow }

ClassifyConfigs ==
    { [ examStartTime |-> s,
        submissionInterval |-> i,
        initialWaitTime |-> Num(initialWaitTime),
        submissionWindowDuration |-> w,
        statusBarEnabled |-> TRUE ] :
      s \in ClassifyStarts, i \in ClassifyIntervals, w \in ClassifyWindows }

InitClassify ==
    /\ loaded = TRUE
    /\ appState \in ClassifyConfigs
    /\ search = updateURL(appState)
    /\ form = form0
    /\ modalActive = FALSE
    /\ statusBar = updateStatusBar(statusBar0, appState, 0)
    /\ datetime = 0
    /\ now = 0
    /\ tickDue = FALSE

AdvanceClassify == Clock((initialWaitTime + 2 * MaxInterval + 3) * Sub)

NextClassify ==
    \/ Tick
    \/ AdvanceClassify

SpecClassify == InitClassify /\ [][NextClassify]_vars

\* ------------------------------------------------------------------------
\* Vocabulary of the properties

\* A positive integer, 1e21 included.
PositiveInt(x) == x = Big \/ (IsInt(x) /\ x.v > 0)

\* A positive integer that double arithmetic subtracts a cycle position from
\* exactly: in the model, every one but 1e21.
ExactPositiveInt(x) == IsInt(x) /\ x.v > 0

StartSet == appState.examStartTime.k = "date"

\* Slots from the end of the initial wait to instant t.
AfterWait(t) == t - appState.examStartTime.t - initialWaitTime * Sub

\* (t - startInstant - initialWaitMinutes) mod intervalMinutes, in slots.
CycleOffset(t) ==
    IF appState.submissionInterval = Big THEN AfterWait(t)
    ELSE AfterWait(t) % appState.submissionInterval.v

\* The offset lies in [0, windowMinutes).
OffsetInWindow(t) ==
    \/ appState.submissionWindowDuration = Big
    \/ CycleOffset(t) < appState.submissionWindowDuration.v

StateAt(t) == calculateExamStatus(appState, t).state

\* The number a reader takes the displayed count for.
CountAt(t) ==
    LET c == calculateExamStatus(appState, t).message.count
    IN  IF c = NumToString(Big) THEN Big ELSE parseInt(c)

\* The status bar shows the status of the held configuration at instant t.
Shows(bar, st, t) ==
    /\ ~bar.hidden
    /\ bar.state = calculateExamStatus(st, t).state
    /\ bar.textContent = calculateExamStatus(st, t).message

\* ------------------------------------------------------------------------
\* C1: for a configuration with positive interval and window and an instant
\* at or after the end of the initial wait, the status is can-submit exactly
\* when the offset into the cycle is below the window and waiting otherwise:
\* can-submit at the exact start of a cycle, waiting exactly windowMinutes
\* into it when the window is shorter than the interval.
C1_WindowClosedOpen ==
    ( /\ StartSet
      /\ PositiveInt(appState.submissionInterval)
      /\ PositiveInt(appState.submissionWindowDuration)
      /\ AfterWait(now) >= 0 )
    => /\ StateAt(now) = IF OffsetInWindow(now) THEN "can-submit" ELSE "waiting"
       /\ CycleOffset(now) = 0 => StateAt(now) = "can-submit"
       /\ ( /\ appState.submissionWindowDuration # Big
            /\ JsLt(appState.submissionWindowDuration, appState.submissionInterval)
            /\ CycleOffset(now) = appState.submissionWindowDuration.v )
          => StateAt(now) = "waiting"

\* The page shows waiting at the instant exactly windowMinutes into the second cycle.
C1_Witness ==
    /\ StartSet
    /\ ExactPositiveInt(appState.submissionInterval)
    /\ ExactPositiveInt(appState.submissionWindowDuration)
    /\ appState.submissionWindowDuration.v < appState.submissionInterval.v
    /\ AfterWait(now) = appState.submissionInterval.v + appState.submissionWindowDuration.v
    /\ Shows(statusBar, appState, now)
    /\ statusBar.state = "waiting"

\* C2: with a start instant set the status is not-started exactly at the
\* instants before it, whatever the interval and window; with the start
\* instant unset it is not-started at every instant.
C2_NotStartedBeforeStart ==
    /\ StartSet => (StateAt(now) = "not-started" <=> now < appState.examStartTime.t)
    /\ appState.examStartTime = Null => StateAt(now) = "not-started"

\* The page shows not-started one slot before the start, under a NaN interval.
C2_Witness ==
    /\ StartSet
    /\ now = appState.examStartTime.t - 1
    /\ appState.submissionInterval = NaN
    /\ Shows(statusBar, appState, now)
    /\ statusBar.state = "not-started"

\* C3: from the start instant to the end of the initial wait the status is
\* waiting, and at the instant the initial wait ends it is can-submit.
C3_InitialWait ==
    (loaded /\ StartSet)
    => /\ (AfterWait(now) < 0 /\ now >= appState.examStartTime.t) => StateAt(now) = "waiting"
       /\ AfterWait(now) = 0 => StateAt(now) = "can-submit"

\* Cycles compared by the periodicity claim.
MaxCycles == 3

\* C4: for a positive interval and an instant at or after the end of the
\* initial wait, the status (state and message) is the same k intervals later.
\* (No instant lies 1e21 minutes after another: a Date spans 8.64e15 ms.)
C4_Periodic ==
    (StartSet /\ ExactPositiveInt(appState.submissionInterval) /\ AfterWait(now) >= 0)
    => \A k \in 0..MaxCycles :
         calculateExamStatus(appState, now + k * appState.submissionInterval.v)
           = calculateExamStatus(appState, now)

\* The page counts down in the second cycle of a configuration whose window
\* is shorter than its interval.
C4_Witness ==
    /\ StartSet
    /\ ExactPositiveInt(appState.submissionInterval)
    /\ ExactPositiveInt(appState.submissionWindowDuration)
    /\ AfterWait(now) > appState.submissionInterval.v
    /\ Shows(statusBar, appState, now)
    /\ statusBar.state = "waiting"
    /\ statusBar.textContent.count = <<"2">>

\* C5: input that fails its check at the settings form is discarded per
\* field, so the held configuration always has a valid start instant, a
\* positive interval and a positive window.
C5_HeldConfigurationValid ==
    loaded => /\ StartSet
              /\ PositiveInt(appState.submissionInterval)
              /\ PositiveInt(appState.submissionWindowDuration)

\* The format of the interval and duration parameters: a positive decimal integer.
WellFormedNumber(s) ==
    /\ s # <<>>
    /\ \A i \in 1..Len(s) : IsDigit(s[i])
    /\ DigitsValue(s) > 0

\* The format of the start parameter: hours 0-23, a colon, minutes 0-59.
WellFormedStart(s) ==
    /\ Len(s) \in {4, 5}
    /\ s[Len(s) - 2] = ":"
    /\ \A i \in 1..Len(s) : i # Len(s) - 2 => IsDigit(s[i])
    /\ DigitsValue(SubSeq(s, 1, Len(s) - 3)) < 24
    /\ DigitsValue(SubSeq(s, Len(s) - 1, Len(s))) < 60

\* The instant a well-formed start parameter names on the date of t.
StartInstant(s, t) ==
    (t - (t % DaySlots))
      + (DigitsValue(SubSeq(s, 1, Len(s) - 3)) * 60
           + DigitsValue(SubSeq(s, Len(s) - 1, Len(s)))) * Sub

\* C6: at load each address parameter is accepted or rejected on its own: a
\* missing or malformed interval leaves 10, a missing or malformed duration
\* leaves 1, a missing show leaves the indicator hidden, a missing or
\* out-of-range start gives the instant of the load, and the initial wait is 30.
C6_LoadFallbacks ==
    [][ (~loaded /\ loaded')
        => /\ appState'.submissionInterval =
                IF "interval" \in DOMAIN search /\ WellFormedNumber(search.interval)
                THEN Num(DigitsValue(search.interval)) ELSE Num(10)
           /\ appState'.submissionWindowDuration =
                IF "duration" \in DOMAIN search /\ WellFormedNumber(search.duration)
                THEN Num(DigitsValue(search.duration)) ELSE Num(1)
           /\ "show" \notin DOMAIN search => ~appState'.statusBarEnabled
           /\ appState'.examStartTime =
                IF "start" \in DOMAIN search /\ WellFormedStart(search.start)
                THEN NewDate(StartInstant(search.start, now)) ELSE NewDate(now)
           /\ appState'.initialWaitTime = Num(30) ]_vars

\* C7: a held configuration with a start instant, a positive integer interval
\* and window and a boolean visibility, written to the address by updateURL
\* and read back on the same date, gives the same start hour and minute, the
\* same interval, the same window and the same visibility.
C7_RoundTrip ==
    ( /\ loaded
      /\ StartSet
      /\ PositiveInt(appState.submissionInterval)
      /\ PositiveInt(appState.submissionWindowDuration) )
    => LET back == initializeFromURL(appState0, updateURL(appState), now)
       IN  /\ getHours(back.examStartTime) = getHours(appState.examStartTime)
           /\ getMinutes(back.examStartTime) = getMinutes(appState.examStartTime)
           /\ back.submissionInterval = appState.submissionInterval
           /\ back.submissionWindowDuration = appState.submissionWindowDuration
           /\ back.statusBarEnabled = appState.statusBarEnabled

\* Instant t is a whole number of minutes after the start instant.
MinuteBoundary(t) == (t - appState.examStartTime.t) % Sub = 0

\* The waiting period instant t belongs to: -1 for the initial wait, else the
\* number of the cycle.
Period(t) ==
    IF AfterWait(t) < 0 THEN -1
    ELSE IF ~ExactPositiveInt(appState.submissionInterval) THEN 0
    ELSE AfterWait(t) \div appState.submissionInterval.v

\* What the countdown claim says of the count shown at instant t.
CountsDown(t) ==
    /\ calculateExamStatus(appState, t).message.count # <<"0">>
    /\ IF StateAt(t + 1) = "waiting" /\ Period(t + 1) = Period(t)
       THEN IF MinuteBoundary(t + 1)
            THEN /\ JsLt(CountAt(t + 1), CountAt(t))
                 /\ JsSub(CountAt(t), CountAt(t + 1)) = Num(1)
            ELSE CountAt(t + 1) = CountAt(t)
       ELSE calculateExamStatus(appState, t).message.count = <<"1">>

\* C8 as stated, read on the well-formed configurations: within a waiting
\* period (the initial wait, or the part of a cycle after the window) the
\* count shown is never 0, goes down by exactly 1 at each whole-minute
\* boundary and is 1 in the last minute.
C8_CountsDown_AnyInterval ==
    ( /\ StartSet
      /\ now >= appState.examStartTime.t
      /\ StateAt(now) = "waiting"
      /\ PositiveInt(appState.submissionInterval)
      /\ PositiveInt(appState.submissionWindowDuration) )
    => CountsDown(now)

\* C8 as amended: the same, for the initial wait and for the cycles of an
\* interval below 2^37 minutes (in the model: every positive interval but 1e21).
C8_CountsDown ==
    ( /\ StartSet
      /\ now >= appState.examStartTime.t
      /\ StateAt(now) = "waiting"
      /\ AfterWait(now) >= 0 => ExactPositiveInt(appState.submissionInterval) )
    => CountsDown(now)

\* The page shows a count above 1 in a cycle, one slot before a minute boundary.
C8_Witness ==
    /\ StartSet
    /\ AfterWait(now) >= 0
    /\ ExactPositiveInt(appState.submissionInterval)
    /\ Shows(statusBar, appState, now)
    /\ statusBar.state = "waiting"
    /\ statusBar.textContent.count = <<"3">>
    /\ MinuteBoundary(now + 1)
    /\ StateAt(now + 1) = "waiting"

\* C9: every step that leaves a visible status bar either renders it from the
\* configuration and wall-clock time current at that step (a timer tick, and
\* applied settings within the same step), or changes neither the
\* configuration nor the bar; so the bar never shows a status of a
\* configuration older than the held one.
C9_NoStaleStatus ==
    [][ (loaded' /\ ~statusBar'.hidden)
        => \/ Shows(statusBar', appState', now')
           \/ (appState' = appState /\ statusBar' = statusBar) ]_vars

\* Settings were applied after the last tick and the bar shows their status.
C9_Witness ==
    /\ loaded
    /\ datetime < now
    /\ Shows(statusBar, appState, now)
    /\ statusBar.state = "can-submit"
    /\ ~Shows(statusBar, appState, datetime)

\* What the accuracy claim says of the count shown at instant t.
Accurate(t) ==
    /\ IsInt(CountAt(t))
    /\ \E d \in (CountAt(t).v - Sub + 1)..CountAt(t).v :
         /\ StateAt(t + d) = "can-submit"
         /\ \A e \in 0..(d - 1) : StateAt(t + e) = "waiting"

\* C10 as stated: for a positive interval and window, a waiting status with
\* count R is followed by the first can-submit instant after more than R - 1
\* and at most R minutes.
C10_Accurate_AnyInterval ==
    ( /\ PositiveInt(appState.submissionInterval)
      /\ PositiveInt(appState.submissionWindowDuration)
      /\ StateAt(now) = "waiting"
      /\ CountAt(now) # NaN )
    => Accurate(now)

\* C10 as amended: the same for an interval below 2^37 minutes (in the model:
\* every positive interval but 1e21).
C10_Accurate ==
    ( /\ ExactPositiveInt(appState.submissionInterval)
      /\ PositiveInt(appState.submissionWindowDuration)
      /\ StateAt(now) = "waiting"
      /\ CountAt(now) # NaN )
    => Accurate(now)

\* The page shows a count of 2 half-way through a minute of a cycle.
C10_Witness ==
    /\ ExactPositiveInt(appState.submissionInterval)
    /\ ExactPositiveInt(appState.submissionWindowDuration)
    /\ AfterWait(now) >= 0
    /\ ~MinuteBoundary(now)
    /\ Shows(statusBar, appState, now)
    /\ statusBar.state = "waiting"
    /\ statusBar.textContent.count = <<"2">>
    /\ StateAt(now + 2 * Sub - 1) = "can-submit"

==========================================================================
